---------------------------- MODULE Spec2Model ----------------------------
(***************************************************************************)
(* hugo-update-lastmod: the change-detection and decision engine of        *)
(* bin/hugo-update-lastmod.mjs, in its two cache-based variants            *)
(*   "timestamp": lines 1-583   (fingerprint = mtimeMs + size, cache v2)   *)
(*   "hash":      lines 882-1496 (fingerprint = sha256 + size, cache v3)   *)
(*                                                                         *)
(* Strings are sequences of UTF-16 code units (naturals), so that          *)
(* startsWith, trim, split, join and the relational operator > on strings  *)
(* are computed the way JavaScript computes them.                          *)
(***************************************************************************)
EXTENDS Integers, Sequences, FiniteSets, TLC

(***************************************************************************)
(* String primitives of the JavaScript runtime used by the program         *)
(***************************************************************************)

\* \s of a RegExp and the characters String.prototype.trim strips (ASCII part)
IsSpace(c) == c \in {9, 10, 11, 12, 13, 32}

RECURSIVE trimStart(_)
trimStart(s) == IF s # <<>> /\ IsSpace(Head(s)) THEN trimStart(Tail(s)) ELSE s

RECURSIVE trimEnd(_)
trimEnd(s) ==
  IF s # <<>> /\ IsSpace(s[Len(s)]) THEN trimEnd(SubSeq(s, 1, Len(s) - 1)) ELSE s

\* line.trim()
trim(s) == trimEnd(trimStart(s))

\* s.startsWith(p)
startsWith(s, p) == Len(s) >= Len(p) /\ SubSeq(s, 1, Len(p)) = p

\* s.replace(/"/g, "")
removeQuotes(s) == SelectSeq(s, LAMBDA c : c # 34)

\* content.split("\n"): always at least one element
RECURSIVE split(_)
split(s) ==
  IF \E i \in 1..Len(s) : s[i] = 10
  THEN LET i == CHOOSE k \in 1..Len(s) :
                  s[k] = 10 /\ \A j \in 1..(k - 1) : s[j] # 10
       IN  <<SubSeq(s, 1, i - 1)>> \o split(SubSeq(s, i + 1, Len(s)))
  ELSE <<s>>

\* lines.join("\n"): the empty array joins to the empty string
RECURSIVE join(_)
join(lines) ==
  IF lines = <<>> THEN <<>>
  ELSE IF Len(lines) = 1 THEN lines[1]
  ELSE lines[1] \o <<10>> \o join(Tail(lines))

\* a > b on two strings: comparison by code units, a proper prefix is smaller
RECURSIVE strGreater(_, _)
strGreater(a, b) ==
  IF a = <<>> THEN FALSE
  ELSE IF b = <<>> THEN TRUE
  ELSE IF Head(a) # Head(b) THEN Head(a) > Head(b)
  ELSE strGreater(Tail(a), Tail(b))

\* String(n) for a natural n
RECURSIVE String(_)
String(n) == IF n < 10 THEN <<48 + n>> ELSE String(n \div 10) \o <<48 + (n % 10)>>

(***************************************************************************)
(* Configuration                                                           *)
(***************************************************************************)

\* CONFIG.frontmatterDelim || "---"
FRONTMATTER_DELIM == <<45, 45, 45>>

\* the literal "lastmod:"
LASTMOD_KEY == <<108, 97, 115, 116, 109, 111, 100, 58>>

(***************************************************************************)
(* Descriptor editor                                                       *)
(***************************************************************************)

\* the new header line `lastmod: "${newLastmod}"`
lastmodLine(newLastmod) == LASTMOD_KEY \o <<32, 34>> \o newLastmod \o <<34>>

\* the double quotes are kept
lastmodValue_keepsQuotes(line) ==
  trim(trimStart(SubSeq(line, Len(LASTMOD_KEY) + 1, Len(line))))

\* line.replace(/^lastmod:\s*/, "").replace(/"/g, "").trim()
lastmodValue(line) ==
  trim(removeQuotes(trimStart(SubSeq(line, Len(LASTMOD_KEY) + 1, Len(line)))))

\* index (1-based) of the first header line that starts with "lastmod:", 0 if none
firstLastmod(fmLines) ==
  IF \E i \in 1..Len(fmLines) : startsWith(fmLines[i], LASTMOD_KEY)
  THEN CHOOSE i \in 1..Len(fmLines) :
         /\ startsWith(fmLines[i], LASTMOD_KEY)
         /\ \A j \in 1..(i - 1) : ~startsWith(fmLines[j], LASTMOD_KEY)
  ELSE 0

\* the ascending positions of the lines whose trimmed text is the delimiter
delimIdx(lines) ==
  SelectSeq([i \in 1..Len(lines) |-> i],
            LAMBDA i : trim(lines[i]) = FRONTMATTER_DELIM)

parseFrontmatter(content) ==
  LET lines == split(content)
      fmIdx == delimIdx(lines)
  IN  IF Len(fmIdx) < 2 \/ fmIdx[2] <= fmIdx[1]
      THEN [currentLastmod |-> <<>>, fmLines |-> <<>>, bodyLines |-> lines,
            valid |-> FALSE]
      ELSE LET fmStart   == fmIdx[1]
               fmEnd     == fmIdx[2]
               fmLines   == SubSeq(lines, fmStart + 1, fmEnd - 1)
               bodyLines == SubSeq(lines, fmEnd + 1, Len(lines))
               k         == firstLastmod(fmLines)
           IN  [currentLastmod |-> IF k = 0 THEN <<>> ELSE lastmodValue(fmLines[k]),
                fmLines |-> fmLines, bodyLines |-> bodyLines, valid |-> TRUE]

\* the new line is appended, whether or not a "lastmod:" line exists
newFmLines_appendOnly(fmLines, newLastmod) ==
  Append(fmLines, lastmodLine(newLastmod))

\* the header lines with the first "lastmod:" line replaced, or one appended
newFmLines(fmLines, newLastmod) ==
  LET k == firstLastmod(fmLines)
  IN  IF k = 0 THEN Append(fmLines, lastmodLine(newLastmod))
      ELSE [i \in 1..Len(fmLines) |->
              IF i = k THEN lastmodLine(newLastmod) ELSE fmLines[i]]

buildNewContent(fmLines, bodyLines, newLastmod) ==
  FRONTMATTER_DELIM \o <<10>> \o join(newFmLines(fmLines, newLastmod))
    \o <<10>> \o FRONTMATTER_DELIM \o <<10>> \o join(bodyLines)

(***************************************************************************)
(* Dates.  A Date is the number of milliseconds since                      *)
(* 2025-10-26T00:00:00Z; the local zone is Europe/Berlin, which leaves     *)
(* summer time at 01:00Z of that day (UTC+02:00 before, UTC+01:00 after).  *)
(***************************************************************************)

\* date.getTimezoneOffset(), in minutes west of UTC
getTimezoneOffset(date) == IF date < 3600000 THEN -120 ELSE -60

\* seconds of local time since local midnight of 2025-10-26
localSeconds(date) == (date \div 1000) - 60 * getTimezoneOffset(date)

getFullYear(date) == 2025
getMonth(date)    == 9
getDate(date)     == 26 + (localSeconds(date) \div 86400)
getHours(date)    == (localSeconds(date) % 86400) \div 3600
getMinutes(date)  == (localSeconds(date) % 3600) \div 60
getSeconds(date)  == localSeconds(date) % 60

\* String(n).padStart(2, "0")
pad(n) == IF Len(String(n)) < 2 THEN <<48>> \o String(n) ELSE String(n)

formatLocalISO(date) ==
  LET offsetMinutes == -getTimezoneOffset(date)
      sign == IF offsetMinutes >= 0 THEN 43 ELSE 45
      abs  == IF offsetMinutes >= 0 THEN offsetMinutes ELSE -offsetMinutes
      offH == pad(abs \div 60)
      offM == pad(abs % 60)
  IN  String(getFullYear(date)) \o <<45>> \o pad(getMonth(date) + 1) \o <<45>>
        \o pad(getDate(date)) \o <<84>> \o pad(getHours(date)) \o <<58>>
        \o pad(getMinutes(date)) \o <<58>> \o pad(getSeconds(date))
        \o <<sign>> \o offH \o <<58>> \o offM

\* any other value counts as newer
isNewerISO_anyChange(newVal, currentVal) ==
  IF currentVal = <<>> THEN TRUE ELSE newVal # currentVal

\* a tie counts as newer
isNewerISO_orEqual(newVal, currentVal) ==
  IF currentVal = <<>> THEN TRUE ELSE ~strGreater(currentVal, newVal)

isNewerISO(newVal, currentVal) ==
  IF currentVal = <<>> THEN TRUE ELSE strGreater(newVal, currentVal)


(***************************************************************************)
(* Inventory scanner.  A bundle directory is a function from the paths of  *)
(* its files (a path is the sequence of the names below the bundle         *)
(* directory, a name a string) to [mtimeMs, size, hash].                   *)
(***************************************************************************)

\* CONFIG.extensions.map((e) => e.toLowerCase()): jpg, jpeg, png, webp, avif
EXTENSIONS ==
  { <<106, 112, 103>>, <<106, 112, 101, 103>>, <<112, 110, 103>>,
    <<119, 101, 98, 112>>, <<97, 118, 105, 102>> }

\* name.toLowerCase() (ASCII letters)
toLowerCase(s) == [i \in 1..Len(s) |-> IF s[i] \in 65..90 THEN s[i] + 32 ELSE s[i]]

\* s.endsWith(p)
endsWith(s, p) == Len(s) >= Len(p) /\ SubSeq(s, Len(s) - Len(p) + 1, Len(s)) = p

\* the name is compared as it is spelled
isImageName_caseSensitive(name) ==
  \E ext \in EXTENSIONS : endsWith(name, <<46>> \o ext)

\* EXTENSIONS.some((ext) => low.endsWith("." + ext))
isImageName(name) ==
  \E ext \in EXTENSIONS : endsWith(toLowerCase(name), <<46>> \o ext)

\* the paths of `tree` that lie in or below directory `current`
below(tree, current) ==
  { p \in DOMAIN tree : Len(p) > Len(current) /\ SubSeq(p, 1, Len(current)) = current }

\* walk(current, depth) of getImageFiles: the files of `current` with an image
\* extension, and those of its subdirectories while depth + 1 < maxDepth
RECURSIVE walk(_, _, _, _)
walk(tree, current, depth, maxDepth) ==
  LET files   == { p \in below(tree, current) : Len(p) = Len(current) + 1 }
      subdirs == { SubSeq(p, 1, Len(current) + 1) :
                     p \in { q \in below(tree, current) : Len(q) > Len(current) + 1 } }
  IN  { p \in files : isImageName(p[Len(p)]) }
        \cup UNION { IF depth + 1 < maxDepth
                     THEN walk(tree, d, depth + 1, maxDepth) ELSE {} : d \in subdirs }

getImageFiles(tree, maxDepth) == walk(tree, <<>>, 0, maxDepth)

\* scanImagesForBundle of the timestamp variant: { rel: { mtimeMs, size } }
scanImagesForBundle_ts(tree, maxDepth) ==
  [p \in getImageFiles(tree, maxDepth) |->
     [mtimeMs |-> tree[p].mtimeMs, size |-> tree[p].size]]

\* scanImagesForBundle of the hash variant: { rel: { hash, size } }
scanImagesForBundle_hash(tree, maxDepth) ==
  [p \in getImageFiles(tree, maxDepth) |->
     [hash |-> tree[p].hash, size |-> tree[p].size]]

scanImagesForBundle(v, tree, maxDepth) ==
  IF v = "timestamp" THEN scanImagesForBundle_ts(tree, maxDepth)
  ELSE scanImagesForBundle_hash(tree, maxDepth)

(***************************************************************************)
(* Diff engine                                                             *)
(***************************************************************************)

\* prev.mtimeMs !== curr.mtimeMs || prev.size !== curr.size
entryChanged_ts(prev, curr) == prev.mtimeMs # curr.mtimeMs \/ prev.size # curr.size

\* prev.hash !== curr.hash || prev.size !== curr.size
entryChanged_hash(prev, curr) == prev.hash # curr.hash \/ prev.size # curr.size

\* only a size that differs counts
entryChanged_sizeOnly(v, prev, curr) == prev.size # curr.size

entryChanged(v, prev, curr) ==
  IF v = "timestamp" THEN entryChanged_ts(prev, curr) ELSE entryChanged_hash(prev, curr)

\* the second loop runs over the current keys: nothing is ever found deleted
diffImages_noDeleted(v, prevImages, currentImages) ==
  LET prevKeys == DOMAIN prevImages
      currKeys == DOMAIN currentImages
  IN  [added   |-> Cardinality({ key \in currKeys : key \notin prevKeys }),
       changed |-> Cardinality({ key \in currKeys : key \in prevKeys
                                   /\ entryChanged(v, prevImages[key], currentImages[key]) }),
       deleted |-> Cardinality({ key \in currKeys : key \notin currKeys })]

diffImages(v, prevImages, currentImages) ==
  LET prevKeys == DOMAIN prevImages
      currKeys == DOMAIN currentImages
  IN  [added   |-> Cardinality({ key \in currKeys : key \notin prevKeys }),
       changed |-> Cardinality({ key \in currKeys : key \in prevKeys
                                   /\ entryChanged(v, prevImages[key], currentImages[key]) }),
       deleted |-> Cardinality({ key \in prevKeys : key \notin currKeys })]

\* the loop of processBundle that finds the largest mtimeMs, starting from 0
maxMtimeMs(currentImages) ==
  LET S == { currentImages[key].mtimeMs : key \in DOMAIN currentImages } \cup {0}
  IN  CHOOSE m \in S : \A x \in S : x <= m

(***************************************************************************)
(* Program state.  Two executions of the program (W) are modelled side by  *)
(* side: they see the same image files, the same glob matches and the same *)
(* clock, and each has its own --dry-run flag, its own copy of the         *)
(* descriptor files and of the cache file, and its own process state.      *)
(***************************************************************************)

VARIABLES
  variant,    \* "timestamp" or "hash": which program is run
  globbed,    \* the matches of glob() over all patterns of TARGET_DIRS, in order
  fs,         \* bundle directory -> its image tree
  DRY_RUN,    \* per execution: --dry-run given
  indexMd,    \* per execution: bundle directory -> index.md [exists, content]
  cacheFile,  \* per execution: .hugo-update-lastmod.cache.json
  cache,      \* per execution: cache.bundles in memory
  stats,      \* per execution: the stats object of main
  pc,         \* per execution: "loop", "done" (footer printed), "crashed" (exit 1)
  pos,        \* index into globbed of the next match
  run,        \* number of the current run
  last,       \* per execution: what the last loop iteration did (observation)
  pre,        \* per execution: the files as they were when the run started
  writes,     \* per execution: descriptor writes of this run
  prev,       \* per execution: how the previous run ended
  ed,         \* the descriptor editor applied to one input (editor specification)
  fn          \* a function of the program applied to one input, and its result

vars == <<variant, globbed, fs, DRY_RUN, indexMd, cacheFile, cache, stats, pc,
          pos, run, last, pre, writes, prev, ed, fn>>

W == {1, 2}

Bundles == {"g1", "g2"}

\* a glob match that is not a directory (statSync fails or !isDirectory())
NonDir == "file"

\* longest list of glob matches
MaxDirs == 2

\* default maxDepth of CONFIG
MAXDEPTH == 1

CACHE_VERSION(v) == IF v = "timestamp" THEN 2 ELSE 3

EmptyInventory == [p \in {} |-> 0]

EmptyBundles == [b \in {} |-> 0]

ZeroStats ==
  [totalBundles |-> 0, updatedBundles |-> 0, unchangedBundles |-> 0,
   noImageBundles |-> 0, totalAdded |-> 0, totalChanged |-> 0, totalDeleted |-> 0]

\* the version of the file is not looked at
loadCache_anyVersion(v, file) ==
  IF file.exists /\ file.parses /\ file.hasBundles
  THEN file.bundles
  ELSE EmptyBundles

\* the cache as the program's start-up code leaves it
loadCache(v, file) ==
  IF file.exists /\ file.parses /\ file.version = CACHE_VERSION(v) /\ file.hasBundles
  THEN file.bundles
  ELSE EmptyBundles

\* the file written by JSON.stringify({version, bundles}) at the end of main
cacheFileOf(v, bundles) ==
  [exists |-> TRUE, parses |-> TRUE, version |-> CACHE_VERSION(v),
   hasBundles |-> TRUE, bundles |-> bundles]

\* the entry is made, the inventory is dropped
put_noImages(bundles, relDir, images) ==
  [b \in DOMAIN bundles \cup {relDir} |->
     IF b = relDir THEN [images |-> EmptyInventory] ELSE bundles[b]]

\* an entry that exists is not overwritten
put_keepsOld(bundles, relDir, images) ==
  IF relDir \in DOMAIN bundles THEN bundles
  ELSE [b \in DOMAIN bundles \cup {relDir} |->
          IF b = relDir THEN [images |-> images] ELSE bundles[b]]

\* cache.bundles[relDir] = { images }
put(bundles, relDir, images) ==
  [b \in DOMAIN bundles \cup {relDir} |->
     IF b = relDir THEN [images |-> images] ELSE bundles[b]]

\* (cache.bundles[relDir] || { images: {} }).images || {}
prevImagesOf(bundles, relDir) ==
  IF relDir \in DOMAIN bundles THEN bundles[relDir].images ELSE EmptyInventory

\* what one call of processBundle returns to the model: the new files and
\* process state of the execution, whether it threw, and what it did
result(ix, c, st, threw, obs) ==
  [indexMd |-> ix, cache |-> c, stats |-> st, threw |-> threw, obs |-> obs]

noCall ==
  [dir |-> "", outcome |-> "none", puts |-> 0, wrote |-> FALSE, decided |-> "none",
   newLastmod |-> <<>>, currentLastmod |-> <<>>, total |-> 0, fault |-> "none",
   before |-> <<>>]

obsOf(s, relDir) == [noCall EXCEPT !.dir = relDir, !.before = s]

\* the call ends by the exception of the failing file operation
threw(o, env) == [o EXCEPT !.outcome = "Threw", !.fault = env.fault]

\* the update is gated on a non-empty diff against the cache as well
shouldUpdateLastmod_diffGated(scope) ==
  /\ scope.added + scope.changed + scope.deleted # 0
  /\ isNewerISO(scope.newLastmod, scope.currentLastmod)

\* step 5 of processBundle, timestamp variant.  scope: the locals of the call
\* (newLastmod, currentLastmod, added, changed, deleted)
shouldUpdateLastmod(scope) == isNewerISO(scope.newLastmod, scope.currentLastmod)

\* processBundle of the timestamp variant.  s: the execution's indexMd, cache,
\* stats and DRY_RUN; env: the fault the file system raises in this call
processBundle_ts(s, relDir, env) ==
  LET o == obsOf(s, relDir) IN
  IF ~s.indexMd[relDir].exists
  THEN result(s.indexMd, s.cache, s.stats, FALSE, [o EXCEPT !.outcome = "NoIndex"])
  ELSE IF env.fault = "list"
  THEN result(s.indexMd, s.cache, s.stats, TRUE, threw(o, env))
  ELSE
  LET currentImages == scanImagesForBundle_ts(fs[relDir], MAXDEPTH) IN
  IF DOMAIN currentImages = {}
  THEN result(s.indexMd, put(s.cache, relDir, EmptyInventory),
              [s.stats EXCEPT !.noImageBundles = @ + 1], FALSE,
              [o EXCEPT !.outcome = "NoImages", !.puts = 1])
  ELSE
  LET prevImages == prevImagesOf(s.cache, relDir)
      d          == diffImages("timestamp", prevImages, currentImages)
      stats1     == [s.stats EXCEPT !.totalAdded = @ + d.added,
                                    !.totalChanged = @ + d.changed,
                                    !.totalDeleted = @ + d.deleted]
      newLastmod == formatLocalISO(maxMtimeMs(currentImages))
      o1         == [o EXCEPT !.newLastmod = newLastmod,
                              !.total = d.added + d.changed + d.deleted]
  IN
  IF env.fault = "read"
  THEN result(s.indexMd, s.cache, stats1, TRUE, threw(o1, env))
  ELSE
  LET fm == parseFrontmatter(s.indexMd[relDir].content)
      o2 == [o1 EXCEPT !.currentLastmod = fm.currentLastmod]
  IN
  IF ~fm.valid
  THEN result(s.indexMd, put(s.cache, relDir, currentImages), stats1, FALSE,
              [o2 EXCEPT !.outcome = "Invalid", !.puts = 1])
  ELSE IF ~shouldUpdateLastmod([newLastmod |-> newLastmod,
                               currentLastmod |-> fm.currentLastmod,
                               added |-> d.added, changed |-> d.changed,
                               deleted |-> d.deleted])
  THEN result(s.indexMd, put(s.cache, relDir, currentImages),
              [stats1 EXCEPT !.unchangedBundles = @ + 1], FALSE,
              [o2 EXCEPT !.outcome = "Unchanged", !.decided = "keep", !.puts = 1])
  ELSE
  LET stats2 == [stats1 EXCEPT !.updatedBundles = @ + 1]
      o3     == [o2 EXCEPT !.decided = "update"]
  IN
  IF s.DRY_RUN
  THEN result(s.indexMd, put(s.cache, relDir, currentImages), stats2, FALSE,
              [o3 EXCEPT !.outcome = "Updated", !.puts = 1])
  ELSE IF env.fault = "write"
  THEN result(s.indexMd, s.cache, stats2, TRUE, threw(o3, env))
  ELSE result([s.indexMd EXCEPT ![relDir].content =
                 buildNewContent(fm.fmLines, fm.bodyLines, newLastmod)],
              put(s.cache, relDir, currentImages), stats2, FALSE,
              [o3 EXCEPT !.outcome = "Updated", !.wrote = TRUE, !.puts = 1])

\* processBundle of the hash variant.  env.now: the clock read by new Date()
processBundle_hash(s, relDir, env) ==
  LET o == obsOf(s, relDir) IN
  IF ~s.indexMd[relDir].exists
  THEN result(s.indexMd, s.cache, s.stats, FALSE, [o EXCEPT !.outcome = "NoIndex"])
  ELSE IF env.fault = "list"
  THEN result(s.indexMd, s.cache, s.stats, TRUE, threw(o, env))
  ELSE
  LET currentImages == scanImagesForBundle_hash(fs[relDir], MAXDEPTH) IN
  IF DOMAIN currentImages = {}
  THEN result(s.indexMd, put(s.cache, relDir, EmptyInventory),
              [s.stats EXCEPT !.noImageBundles = @ + 1], FALSE,
              [o EXCEPT !.outcome = "NoImages", !.puts = 1])
  ELSE
  LET prevImages == prevImagesOf(s.cache, relDir)
      d          == diffImages("hash", prevImages, currentImages)
      stats1     == [s.stats EXCEPT !.totalAdded = @ + d.added,
                                    !.totalChanged = @ + d.changed,
                                    !.totalDeleted = @ + d.deleted]
      totalImgChanges == d.added + d.changed + d.deleted
      o1         == [o EXCEPT !.total = totalImgChanges]
  IN
  IF env.fault = "read"
  THEN result(s.indexMd, s.cache, stats1, TRUE, threw(o1, env))
  ELSE
  LET fm == parseFrontmatter(s.indexMd[relDir].content)
      o2 == [o1 EXCEPT !.currentLastmod = fm.currentLastmod]
  IN
  IF totalImgChanges = 0
  THEN result(s.indexMd, put(s.cache, relDir, currentImages),
              [stats1 EXCEPT !.unchangedBundles = @ + 1], FALSE,
              [o2 EXCEPT !.outcome = "Unchanged", !.decided = "keep", !.puts = 1])
  ELSE IF ~fm.valid
  THEN result(s.indexMd, put(s.cache, relDir, currentImages), stats1, FALSE,
              [o2 EXCEPT !.outcome = "Invalid", !.puts = 1])
  ELSE
  LET newLastmod == formatLocalISO(env.now)
      o3         == [o2 EXCEPT !.newLastmod = newLastmod]
  IN
  IF ~isNewerISO(newLastmod, fm.currentLastmod)
  THEN result(s.indexMd, put(s.cache, relDir, currentImages),
              [stats1 EXCEPT !.unchangedBundles = @ + 1], FALSE,
              [o3 EXCEPT !.outcome = "Unchanged", !.decided = "keep", !.puts = 1])
  ELSE
  LET stats2 == [stats1 EXCEPT !.updatedBundles = @ + 1]
      o4     == [o3 EXCEPT !.decided = "update"]
  IN
  IF s.DRY_RUN
  THEN result(s.indexMd, put(s.cache, relDir, currentImages), stats2, FALSE,
              [o4 EXCEPT !.outcome = "Updated", !.puts = 1])
  ELSE IF env.fault = "write"
  THEN result(s.indexMd, s.cache, stats2, TRUE, threw(o4, env))
  ELSE result([s.indexMd EXCEPT ![relDir].content =
                 buildNewContent(fm.fmLines, fm.bodyLines, newLastmod)],
              put(s.cache, relDir, currentImages), stats2, FALSE,
              [o4 EXCEPT !.outcome = "Updated", !.wrote = TRUE, !.puts = 1])

processBundle(v, s, relDir, env) ==
  IF v = "timestamp" THEN processBundle_ts(s, relDir, env)
  ELSE processBundle_hash(s, relDir, env)

\* one iteration of the loops of main over the glob matches
loopBody(v, s, dir, env) ==
  IF dir \notin Bundles
  THEN result(s.indexMd, s.cache, s.stats, FALSE, noCall)
  ELSE processBundle(v, [s EXCEPT !.stats.totalBundles = @ + 1], dir, env)

\* the cache file is written in every mode
persists_always(v, dry) == TRUE

\* whether main writes the cache file after the loops
persists(v, dry) == IF v = "timestamp" THEN TRUE ELSE ~dry

(***************************************************************************)
(* The model's universe                                                    *)
(***************************************************************************)

file(mtimeMs, size, hash) == [mtimeMs |-> mtimeMs, size |-> size, hash |-> hash]

A_JPG == <<97, 46, 106, 112, 103>>
B_PNG == <<98, 46, 80, 78, 71>>
N_TXT == <<110, 46, 116, 120, 116>>
SUB   == <<115, 117, 98>>
C_JPG == <<99, 46, 106, 112, 103>>

\* no image: a text file only
Tree0 == (<<N_TXT>> :> file(1800000, 10, "h0"))

\* one image, last written at 02:30:00+02:00
Tree1 == (<<A_JPG>> :> file(1800000, 100, "h1")) @@ Tree0

\* a.jpg touched at 02:10:00+01:00 (after the end of summer time), b.PNG added,
\* and an image one level down
Tree2 ==
  (<<A_JPG>> :> file(4200000, 100, "h1")) @@ (<<B_PNG>> :> file(1800000, 50, "h2"))
    @@ (<<SUB, C_JPG>> :> file(90000000, 70, "h3")) @@ Tree0

Trees == {Tree0, Tree1, Tree2}

\* the clock values new Date() may return (a clock may be set back)
Nows == {1800000, 4200000, 90000000}

Faults == {"none", "list", "read", "write"}

\* only the hash variant reads the clock
clockReads(v) == IF v = "hash" THEN Nows ELSE {0}

\* the --dry-run flags of the two executions
DryRuns == {<<FALSE, FALSE>>, <<TRUE, FALSE>>}

TitleLine == <<116, 105, 116, 108, 101, 58, 32, 97>>
TextLine  == <<116, 101, 120, 116>>

md(lines) == [exists |-> TRUE, content |-> join(lines)]

NoIndexMd == [exists |-> FALSE, content |-> <<>>]

\* one delimiter only
InvalidMd == md(<<FRONTMATTER_DELIM, TitleLine, <<>>>>)

\* no lastmod line
PlainMd == md(<<FRONTMATTER_DELIM, TitleLine, FRONTMATTER_DELIM, TextLine, <<>>>>)

\* lastmod: "2025-10-26T02:30:00+02:00"
QuotedMd ==
  md(<<FRONTMATTER_DELIM, lastmodLine(formatLocalISO(1800000)), FRONTMATTER_DELIM, <<>>>>)

\* lastmod: 2025-10-26T02:10:00+01:00 (unquoted), no newline at the end of the file
BareMd ==
  md(<<FRONTMATTER_DELIM, TitleLine,
       LASTMOD_KEY \o <<32>> \o formatLocalISO(4200000),
       FRONTMATTER_DELIM, TextLine>>)

IndexMds == {NoIndexMd, InvalidMd, PlainMd, QuotedMd, BareMd}

NoCacheFile ==
  [exists |-> FALSE, parses |-> FALSE, version |-> 0, hasBundles |-> FALSE,
   bundles |-> EmptyBundles]

\* no cache file; one that knows g1 as Tree1; one that knows g1 as Tree2 and g2
CacheFileNo(v, i) ==
  CASE i = 1 -> NoCacheFile
    [] i = 2 -> cacheFileOf(v, put(EmptyBundles, "g1",
                                   scanImagesForBundle(v, Tree1, MAXDEPTH)))
    [] OTHER -> cacheFileOf(v, put(put(EmptyBundles, "g1",
                                       scanImagesForBundle(v, Tree2, MAXDEPTH)),
                                   "g2", scanImagesForBundle(v, Tree1, MAXDEPTH)))

\* the cache files of the two executions, per variant: the same file, or none
\* for the second execution
CachePairs ==
  UNION { { [v \in {"timestamp", "hash"} |->
               <<CacheFileNo(v, i), IF same THEN CacheFileNo(v, i) ELSE NoCacheFile>>] :
             same \in BOOLEAN } : i \in 1..3 }

RECURSIVE seqsUpTo(_, _)
seqsUpTo(S, n) ==
  IF n = 0 THEN {<<>>}
  ELSE seqsUpTo(S, n - 1)
         \cup { Append(q, x) : q \in { r \in seqsUpTo(S, n - 1) : Len(r) = n - 1 }, x \in S }

noEdit == [phase |-> "off"]

noFn == [op |-> "none"]

noPrev == [pc |-> "none"]

(***************************************************************************)
(* Initial state and actions                                               *)
(***************************************************************************)

\* the program started on the files chosen by `files`: the cache is loaded, main
\* is about to handle the first glob match
Started(files) ==
  /\ variant \in {"timestamp", "hash"}
  /\ globbed \in (seqsUpTo(Bundles \cup {NonDir}, MaxDirs) \ {<<>>})
  /\ fs \in [Bundles -> Trees]
  /\ fs["g2"] = Tree1
  /\ \E f \in files :
        /\ DRY_RUN = f.dry
        /\ indexMd = [w \in W |-> [b \in Bundles |->
                                     IF b = "g1" THEN f.md ELSE PlainMd]]
        /\ cacheFile = <<f.cache[variant][1], f.cache[variant][2]>>
  /\ cache = <<loadCache(variant, cacheFile[1]), loadCache(variant, cacheFile[2])>>
  /\ stats = <<ZeroStats, ZeroStats>>
  /\ pc = <<"loop", "loop">>
  /\ pos = 1
  /\ run = 1
  /\ last = <<noCall, noCall>>
  /\ pre = [w \in W |-> [indexMd |-> indexMd[w], cacheFile |-> cacheFile[w]]]
  /\ writes = <<0, 0>>
  /\ prev = <<noPrev, noPrev>>
  /\ ed = noEdit
  /\ fn = noFn

\* one run; the two executions differ in --dry-run or in the cache file
Init ==
  Started({ [dry |-> d, md |-> m, cache |-> [v \in {"timestamp", "hash"} |-> c[v]]] :
              d \in DryRuns, m \in IndexMds, c \in CachePairs })

world(w) ==
  [indexMd |-> indexMd[w], cache |-> cache[w], stats |-> stats[w], DRY_RUN |-> DRY_RUN[w]]

\* the next glob match is handled by every execution still in its loop
LoopStep ==
  /\ pos <= Len(globbed)
  /\ \E w \in W : pc[w] = "loop"
  /\ \E fault \in Faults, now \in clockReads(variant) :
     \E r1 \in { loopBody(variant, world(1), globbed[pos], [fault |-> fault, now |-> now]) } :
     \E r \in { <<r1, IF world(2) = world(1) THEN r1
                       ELSE loopBody(variant, world(2), globbed[pos],
                                     [fault |-> fault, now |-> now])>> } :
       LET on(w) == pc[w] = "loop"
       IN  /\ indexMd' = [w \in W |-> IF on(w) THEN r[w].indexMd ELSE indexMd[w]]
           /\ cache'   = [w \in W |-> IF on(w) THEN r[w].cache ELSE cache[w]]
           /\ stats'   = [w \in W |-> IF on(w) THEN r[w].stats ELSE stats[w]]
           /\ last'    = [w \in W |-> IF on(w) THEN r[w].obs ELSE last[w]]
           /\ writes'  = [w \in W |-> IF on(w) /\ r[w].obs.wrote
                                      THEN writes[w] + 1 ELSE writes[w]]
           /\ pc'      = [w \in W |-> IF on(w) /\ r[w].threw THEN "crashed" ELSE pc[w]]
  /\ pos' = pos + 1
  /\ UNCHANGED <<variant, globbed, fs, DRY_RUN, cacheFile, run, pre, prev, ed, fn>>

\* after the loops: the cache file is written (or not), then the footer
Persist ==
  /\ pos > Len(globbed)
  /\ \E w \in W : pc[w] = "loop"
  /\ \E fault \in {"none", "write"} :
       LET on(w)  == pc[w] = "loop"
           wr(w)  == on(w) /\ persists(variant, DRY_RUN[w])
       IN  /\ cacheFile' = [w \in W |-> IF wr(w) /\ fault = "none"
                                         THEN cacheFileOf(variant, cache[w])
                                         ELSE cacheFile[w]]
           /\ pc' = [w \in W |-> IF ~on(w) THEN pc[w]
                                 ELSE IF wr(w) /\ fault = "write" THEN "crashed"
                                 ELSE "done"]
  /\ UNCHANGED <<variant, globbed, fs, DRY_RUN, indexMd, cache, stats, pos, run,
                 last, pre, writes, prev, ed, fn>>

Next == LoopStep \/ Persist

Spec == Init /\ [][Next]_vars

(***************************************************************************)
(* Runs in sequence: when the program has ended it is started again, with  *)
(* or without --dry-run, the image files possibly changed in between.  The *)
(* two executions are given the same flag and the same files.              *)
(***************************************************************************)

\* number of runs in sequence
MaxRuns == 2

InitRuns ==
  Started({ [dry |-> <<d, d>>, md |-> m,
             cache |-> [v \in {"timestamp", "hash"} |->
                          <<CacheFileNo(v, i), CacheFileNo(v, i)>>]] :
              d \in BOOLEAN, m \in {InvalidMd, PlainMd, QuotedMd}, i \in 1..2 })

Restart ==
  /\ run < MaxRuns
  /\ \A w \in W : pc[w] # "loop"
  /\ run' = run + 1
  /\ pos' = 1
  /\ \E d \in BOOLEAN : DRY_RUN' = <<d, d>>
  /\ \E t \in Trees : fs' = [fs EXCEPT !["g1"] = t]
  /\ cache' = [w \in W |-> loadCache(variant, cacheFile[w])]
  /\ stats' = [w \in W |-> ZeroStats]
  /\ pc' = [w \in W |-> "loop"]
  /\ last' = [w \in W |-> noCall]
  /\ pre' = [w \in W |-> [indexMd |-> indexMd[w], cacheFile |-> cacheFile[w]]]
  /\ writes' = [w \in W |-> 0]
  /\ prev' = [w \in W |-> [pc |-> pc[w], DRY_RUN |-> DRY_RUN[w], fs |-> fs,
                            writes |-> writes[w]]]
  /\ UNCHANGED <<variant, globbed, indexMd, cacheFile, ed, fn>>

NextRuns == LoopStep \/ Persist \/ Restart

SpecRuns == InitRuns /\ [][NextRuns]_vars

(***************************************************************************)
(* Properties of one run                                                   *)
(***************************************************************************)

\* the last loop iteration of execution w called processBundle
called(w) == last[w].dir \in Bundles

\* index.md of that bundle as the call found it
descBefore(w) == last[w].before.indexMd[last[w].dir]

\* index.md of that bundle now
descNow(w) == indexMd[w][last[w].dir]

\* the call read index.md of a bundle with images: the file exists and neither
\* the directory listing nor the read failed
reachedDescriptor(w, images) ==
  /\ called(w)
  /\ descBefore(w).exists
  /\ DOMAIN images # {}
  /\ last[w].fault \notin {"list", "read"}

counted(w, field) == stats[w][field] - last[w].before.stats[field]

\* C1: timestamp variant, bundle with at least one image and a valid descriptor:
\* processBundle decides "update" iff the current lastmod is empty or the formatted
\* maximum mtime is lexicographically greater than it.  An update is counted as
\* updated and, unless dry-run, written with the candidate; a tie or an earlier
\* candidate leaves the descriptor alone and is counted as unchanged.
C1_TimestampDecision ==
  variant = "timestamp" =>
    \A w \in W :
      LET images == scanImagesForBundle_ts(fs[last[w].dir], MAXDEPTH)
          fm     == parseFrontmatter(descBefore(w).content)
          cand   == formatLocalISO(maxMtimeMs(images))
          upd    == fm.currentLastmod = <<>> \/ strGreater(cand, fm.currentLastmod)
      IN  (reachedDescriptor(w, images) /\ fm.valid) =>
            /\ last[w].decided = (IF upd THEN "update" ELSE "keep")
            /\ counted(w, "updatedBundles") = (IF upd THEN 1 ELSE 0)
            /\ counted(w, "unchangedBundles") = (IF upd THEN 0 ELSE 1)
            /\ IF upd /\ ~last[w].before.DRY_RUN /\ last[w].fault # "write"
               THEN descNow(w).content =
                      buildNewContent(fm.fmLines, fm.bodyLines, cand)
               ELSE descNow(w) = descBefore(w)

\* C1 witness: a tie (candidate equal to the current lastmod) was decided as
\* "keep"
C1_Witness ==
  /\ variant = "timestamp"
  /\ \E w \in W : /\ called(w)
                  /\ last[w].decided = "keep"
                  /\ last[w].currentLastmod # <<>>
                  /\ last[w].newLastmod = last[w].currentLastmod

\* C2: timestamp variant: two executions that find the same image files and the
\* same descriptor of a bundle, whatever their cached inventories and diff counts,
\* make the same decision with the same candidate, and with the same mode leave
\* the same descriptor behind.
C2_DecisionIgnoresCache ==
  ( /\ variant = "timestamp"
    /\ called(1) /\ called(2)
    /\ last[1].dir = last[2].dir
    /\ descBefore(1) = descBefore(2)
    /\ last[1].fault = "none" /\ last[2].fault = "none" )
    => /\ last[1].decided = last[2].decided
       /\ last[1].outcome = last[2].outcome
       /\ last[1].newLastmod = last[2].newLastmod
       /\ (last[1].before.DRY_RUN = last[2].before.DRY_RUN => descNow(1) = descNow(2))

\* C2 witness: the two executions started from different cached inventories, saw
\* different diff counts, one of them zero, and both wrote the update
C2_Witness ==
  /\ variant = "timestamp"
  /\ called(1) /\ called(2) /\ last[1].dir = last[2].dir
  /\ last[1].before.cache # last[2].before.cache
  /\ last[1].total = 0 /\ last[2].total # 0
  /\ last[1].wrote /\ last[2].wrote

C4_CachePutAlways ==
  \A w \in W :
    (called(w) /\ descBefore(w).exists /\ last[w].fault # "list") =>
      /\ last[w].puts = 1
      /\ last[w].dir \in DOMAIN cache[w]
      /\ cache[w][last[w].dir].images =
           scanImagesForBundle(variant, fs[last[w].dir], MAXDEPTH)

C6_CacheFileAlwaysWritten ==
  \A w \in W : pc[w] = "done" => cacheFile[w] = cacheFileOf(variant, cache[w])

\* C7 (as claimed): a dry run and a real run started from the same descriptors and
\* the same cache file end with the same statistics and the same cache in memory.
C7_DryRunSameStatistics ==
  ( /\ pc[1] = "done" /\ pc[2] = "done"
    /\ pre[1] = pre[2] )
  => /\ stats[1] = stats[2]
     /\ cache[1] = cache[2]

\* C11 (as claimed): in both variants a bundle with images whose descriptor has
\* fewer than two delimiter lines ends as Invalid: the descriptor is left as it
\* was, the bundle is counted neither as updated nor as unchanged, its cache
\* entry is the current inventory, and the call returns without an exception.
C11_InvalidDescriptorOutcome ==
  \A w \in W :
    LET images == scanImagesForBundle(variant, fs[last[w].dir], MAXDEPTH)
        fm     == parseFrontmatter(descBefore(w).content)
    IN  (reachedDescriptor(w, images) /\ ~fm.valid) =>
          /\ last[w].outcome = "Invalid"
          /\ descNow(w) = descBefore(w)
          /\ counted(w, "updatedBundles") = 0
          /\ counted(w, "unchangedBundles") = 0
          /\ last[w].dir \in DOMAIN cache[w]
          /\ cache[w][last[w].dir].images = images

\* C12: a bundle directory with an index.md whose scan is made and yields no
\* image ends as NoImages: noImageBundles is incremented, the cache entry is set
\* to the empty inventory, the descriptor is not written and the bundle is
\* counted neither as updated nor as unchanged.
C12_NoImagesOutcome ==
  \A w \in W :
    ( /\ called(w)
      /\ descBefore(w).exists
      /\ last[w].fault # "list"
      /\ DOMAIN scanImagesForBundle(variant, fs[last[w].dir], MAXDEPTH) = {} )
    => /\ last[w].outcome = "NoImages"
       /\ counted(w, "noImageBundles") = 1
       /\ counted(w, "updatedBundles") = 0
       /\ counted(w, "unchangedBundles") = 0
       /\ counted(w, "totalAdded") + counted(w, "totalChanged")
            + counted(w, "totalDeleted") = 0
       /\ last[w].dir \in DOMAIN cache[w]
       /\ cache[w][last[w].dir].images = EmptyInventory
       /\ ~last[w].wrote
       /\ descNow(w) = descBefore(w)

\* C12 witness: the images of a bundle known to the cache are gone, its
\* descriptor has no lastmod line; the entry was replaced by the empty inventory
C12_Witness ==
  /\ called(1)
  /\ last[1].outcome = "NoImages"
  /\ ~DRY_RUN[1]
  /\ prevImagesOf(last[1].before.cache, last[1].dir) # EmptyInventory
  /\ descBefore(1) = PlainMd
  /\ cache[1][last[1].dir].images = EmptyInventory

\* C13 (as claimed): a failing directory listing, descriptor read or descriptor
\* write abandons that bundle only; the run goes on.
C13_ErrorIsolation ==
  \A w \in W : last[w].outcome = "Threw" => pc[w] # "crashed"

\* C17 (as claimed): within one run no bundle directory is handed to
\* processBundle twice, whatever the glob patterns match, and totalBundles counts
\* each directory once.
C17_ProcessedOnce ==
  \A w \in W :
    (called(w) /\ last[w].outcome # "Threw") =>
      /\ \A j \in 1..(pos - 2) : globbed[j] # last[w].dir
      /\ stats[w].totalBundles
           <= Cardinality({ globbed[j] : j \in 1..(pos - 1) } \cap Bundles)

(***************************************************************************)
(* The descriptor editor on its own: a descriptor is read and parsed, the  *)
(* new text is built for a value X and written, and the next run parses    *)
(* what was written.                                                       *)
(***************************************************************************)

\* most header lines, and most body lines, of a descriptor
MaxLines == 2

\* "title: a"; a quoted lastmod; an unquoted one; one that is indented
HeaderLines ==
  { TitleLine,
    lastmodLine(formatLocalISO(1800000)),
    LASTMOD_KEY \o <<32>> \o formatLocalISO(4200000),
    <<32>> \o LASTMOD_KEY \o <<32, 120>> }

\* "text"; an empty line; a line of three dashes
BodyLines == { TextLine, <<>>, FRONTMATTER_DELIM }

\* the opening of a descriptor: the delimiter, possibly padded, possibly after
\* an empty line
Openings == { <<FRONTMATTER_DELIM>>, <<<<>>, FRONTMATTER_DELIM \o <<32>>>> }

Descriptors ==
  { join(o \o h \o <<FRONTMATTER_DELIM>> \o b) :
      o \in Openings, h \in seqsUpTo(HeaderLines, MaxLines),
      b \in seqsUpTo(BodyLines, MaxLines) }
    \cup { InvalidMd.content, TextLine }

\* values without newline and without double quote: "", a timestamp, "x",
\* " x", "x ", "a b"
Values ==
  { <<>>, formatLocalISO(4200000), <<120>>, <<32, 120>>, <<120, 32>>, <<97, 32, 98>> }

noFm == [currentLastmod |-> <<>>, fmLines |-> <<>>, bodyLines |-> <<>>, valid |-> FALSE]

InitEditor ==
  /\ variant = "timestamp"
  /\ globbed = <<"g1">>
  /\ fs = [b \in Bundles |-> Tree1]
  /\ DRY_RUN = <<FALSE, FALSE>>
  /\ indexMd = [w \in W |-> [b \in Bundles |-> PlainMd]]
  /\ cacheFile = <<NoCacheFile, NoCacheFile>>
  /\ cache = [w \in W |-> EmptyBundles]
  /\ stats = [w \in W |-> ZeroStats]
  /\ pc = [w \in W |-> "done"]
  /\ pos = 1
  /\ run = 1
  /\ last = [w \in W |-> noCall]
  /\ pre = [w \in W |-> [indexMd |-> indexMd[w], cacheFile |-> cacheFile[w]]]
  /\ writes = [w \in W |-> 0]
  /\ prev = <<noPrev, noPrev>>
  /\ fn = noFn
  /\ \E c \in Descriptors, x \in Values :
        ed = [phase |-> "read", content |-> c, X |-> x, fm |-> noFm, out |-> <<>>,
              re |-> noFm]

\* const fm = parseFrontmatter(content, indexFile); if (!fm.valid) return
Parse ==
  /\ ed.phase = "read"
  /\ \E fm \in { parseFrontmatter(ed.content) } :
        ed' = [ed EXCEPT !.fm = fm,
                         !.phase = IF fm.valid THEN "parsed" ELSE "invalid"]
  /\ UNCHANGED <<variant, globbed, fs, DRY_RUN, indexMd, cacheFile, cache, stats, pc,
                 pos, run, last, pre, writes, prev, fn>>

\* const newContent = buildNewContent(fm.fmLines, fm.bodyLines, newLastmod)
Build ==
  /\ ed.phase = "parsed"
  /\ ed' = [ed EXCEPT !.out = buildNewContent(ed.fm.fmLines, ed.fm.bodyLines, ed.X),
                      !.phase = "built"]
  /\ UNCHANGED <<variant, globbed, fs, DRY_RUN, indexMd, cacheFile, cache, stats, pc,
                 pos, run, last, pre, writes, prev, fn>>

\* the next run reads what was written and parses it
Reparse ==
  /\ ed.phase = "built"
  /\ ed' = [ed EXCEPT !.re = parseFrontmatter(ed.out), !.phase = "reparsed"]
  /\ UNCHANGED <<variant, globbed, fs, DRY_RUN, indexMd, cacheFile, cache, stats, pc,
                 pos, run, last, pre, writes, prev, fn>>

NextEditor == Parse \/ Build \/ Reparse

SpecEditor == InitEditor /\ [][NextEditor]_vars

(***************************************************************************)
(* Properties of runs in sequence                                          *)
(***************************************************************************)

\* execution w is in a run that follows a completed real run, is itself a real
\* run, and finds the image files as that run left them
secondOfTwo(w) ==
  /\ prev[w].pc = "done"
  /\ ~prev[w].DRY_RUN
  /\ ~DRY_RUN[w]
  /\ fs = prev[w].fs

\* C8: the pipeline run twice in a row, not dry, on unchanged image files: the
\* second run writes no descriptor, every bundle with images and a valid
\* descriptor ends it as Unchanged, and the cache file it leaves is the one the
\* first run left.
C8_SecondRunIdempotent ==
  \A w \in W :
    secondOfTwo(w) =>
      /\ writes[w] = 0
      /\ indexMd[w] = pre[w].indexMd
      /\ stats[w].updatedBundles = 0
      /\ LET images == scanImagesForBundle(variant, fs[last[w].dir], MAXDEPTH)
             fm     == parseFrontmatter(descBefore(w).content)
         IN  (reachedDescriptor(w, images) /\ fm.valid) =>
               /\ last[w].outcome = "Unchanged"
               /\ last[w].total = 0
      /\ cacheFile[w] = pre[w].cacheFile

\* C8 witness: the first run wrote a descriptor, the second run has ended and
\* counted that bundle as unchanged
C8_Witness ==
  /\ secondOfTwo(1)
  /\ prev[1].writes > 0
  /\ pc[1] = "done"
  /\ stats[1].unchangedBundles > 0

\* between the descriptors `old` and `new` of one file the lastmod of a valid
\* descriptor has not become lexicographically smaller, and has not been emptied
keepsLastmod(old, new) ==
  LET o == parseFrontmatter(old.content)
      n == parseFrontmatter(new.content)
  IN  \/ new = old
      \/ (old.exists /\ o.valid) =>
            /\ new.exists /\ n.valid
            /\ ~strGreater(o.currentLastmod, n.currentLastmod)
            /\ o.currentLastmod # <<>> => n.currentLastmod # <<>>

\* C20: over runs of either variant, dry or not, with image changes in between,
\* no step of the tool makes the lastmod of a valid descriptor lexicographically
\* smaller or removes or empties a lastmod that is not empty; the same holds
\* between the descriptor as a run found it and as it is at any later point of
\* that run.
C20_LastmodMonotone ==
  \A w \in W :
    /\ \A b \in Bundles : keepsLastmod(pre[w].indexMd[b], indexMd[w][b])
    /\ called(w) =>
         /\ keepsLastmod(descBefore(w), descNow(w))
         /\ \A b \in Bundles \ {last[w].dir} :
              indexMd[w][b] = last[w].before.indexMd[b]

\* C20 witness: the second run in a row replaced, after a change of the images,
\* the lastmod that the first run had written by a greater one
C20_Witness ==
  /\ run = 2
  /\ prev[1].writes > 0
  /\ writes[1] > 0
  /\ \E b \in Bundles :
       LET o == parseFrontmatter(pre[1].indexMd[b].content)
           n == parseFrontmatter(indexMd[1][b].content)
       IN  /\ o.currentLastmod # <<>>
           /\ strGreater(n.currentLastmod, o.currentLastmod)

(***************************************************************************)
(* Properties of the descriptor editor                                     *)
(***************************************************************************)

\* C9 as stated: for header and body lines of a valid descriptor and any X
\* without newline and double quote, the built text parses as valid and its
\* currentLastmod is X.
C9_RoundTrip ==
  ed.phase = "reparsed" => (ed.re.valid /\ ed.re.currentLastmod = ed.X)

\* C9: for header and body lines of a valid descriptor and any X without
\* newline and double quote that neither begins nor ends with white space, the
\* built text parses as valid and its currentLastmod is X; for any other such X
\* the currentLastmod is X trimmed.
C9_RoundTripTrimmed ==
  ed.phase = "reparsed" =>
    /\ ed.re.valid
    /\ ed.re.currentLastmod = trim(ed.X)
    /\ (trim(ed.X) = ed.X => ed.re.currentLastmod = ed.X)

\* C9 witness: a value with a space inside replaced an older lastmod line and
\* was read back
C9_Witness ==
  /\ ed.phase = "reparsed"
  /\ ed.X = <<97, 32, 98>>
  /\ firstLastmod(ed.fm.fmLines) # 0
  /\ ed.fm.currentLastmod # ed.X
  /\ ed.re.currentLastmod = ed.X

\* the lines without the first one that starts with "lastmod:"
others(fmLines) ==
  LET k == firstLastmod(fmLines)
  IN  IF k = 0 THEN fmLines
      ELSE SubSeq(fmLines, 1, k - 1) \o SubSeq(fmLines, k + 1, Len(fmLines))

\* C10: the built text is the delimiter, the header lines, the delimiter and
\* the body; the header lines other than the first lastmod line are those of
\* the descriptor, unchanged and in the same order, the new lastmod line stands
\* where the old one stood or, when there was none, is the last header line;
\* the body lines follow the closing delimiter verbatim.
C10_HeaderBodyPreserved ==
  ed.phase = "reparsed" =>
    LET k == firstLastmod(ed.fm.fmLines)
    IN  /\ ed.re.valid
        /\ split(ed.out) = <<FRONTMATTER_DELIM>> \o ed.re.fmLines
                             \o <<FRONTMATTER_DELIM>> \o ed.re.bodyLines
        /\ others(ed.re.fmLines) = others(ed.fm.fmLines)
        /\ Len(ed.re.fmLines) = Len(others(ed.fm.fmLines)) + 1
        /\ firstLastmod(ed.re.fmLines) = (IF k = 0 THEN Len(ed.re.fmLines) ELSE k)
        /\ ed.re.fmLines[firstLastmod(ed.re.fmLines)] = lastmodLine(ed.X)
        /\ join(ed.re.bodyLines) = join(ed.fm.bodyLines)
        /\ (ed.fm.bodyLines # <<>> => ed.re.bodyLines = ed.fm.bodyLines)

\* C10 witness: a descriptor with two header lines, none of them a lastmod
\* line, and two body lines, one of them a line of dashes, was rebuilt
C10_Witness ==
  /\ ed.phase = "reparsed"
  /\ Len(ed.fm.fmLines) = 2
  /\ firstLastmod(ed.fm.fmLines) = 0
  /\ Len(ed.fm.bodyLines) = 2
  /\ \E i \in 1..2 : ed.fm.bodyLines[i] = FRONTMATTER_DELIM
  /\ Len(ed.re.fmLines) = 3

(***************************************************************************)
(* Functions of the program on their own.  The program is idle; one        *)
(* function is applied to one input drawn from a bounded set.              *)
(***************************************************************************)

\* no run is in progress
Idle ==
  /\ globbed = <<"g1">>
  /\ fs = [b \in Bundles |-> Tree0]
  /\ DRY_RUN = <<FALSE, FALSE>>
  /\ indexMd = [w \in W |-> [b \in Bundles |-> NoIndexMd]]
  /\ cacheFile = <<NoCacheFile, NoCacheFile>>
  /\ cache = [w \in W |-> EmptyBundles]
  /\ stats = [w \in W |-> ZeroStats]
  /\ pc = [w \in W |-> "done"]
  /\ pos = 1
  /\ run = 1
  /\ last = [w \in W |-> noCall]
  /\ pre = [w \in W |-> [indexMd |-> indexMd[w], cacheFile |-> cacheFile[w]]]
  /\ writes = [w \in W |-> 0]
  /\ prev = <<noPrev, noPrev>>
  /\ ed = noEdit

\* what a step of these specifications leaves alone
idleVars == <<variant, globbed, fs, DRY_RUN, indexMd, cacheFile, cache, stats, pc,
              pos, run, last, pre, writes, prev, ed>>

(***************************************************************************)
(* diffImages                                                              *)
(***************************************************************************)

\* number of distinct keys of the inventories
MaxKeys == 2

\* the relative paths "k1", "k2", ...
Keys == { <<(<<107>> \o String(i))>> : i \in 1..MaxKeys }

\* the entries of an inventory of variant v: two fingerprints, two sizes
Entries(v) ==
  IF v = "timestamp"
  THEN { [mtimeMs |-> m, size |-> z] : m \in {1800000, 4200000}, z \in {50, 100} }
  ELSE { [hash |-> h, size |-> z] : h \in {"h1", "h2"}, z \in {50, 100} }

Inventories(v) == UNION { [K -> Entries(v)] : K \in SUBSET Keys }

ZeroDiff == [added |-> 0, changed |-> 0, deleted |-> 0]

InitDiff ==
  /\ Idle
  /\ variant \in {"timestamp", "hash"}
  /\ \E A \in Inventories(variant), B \in Inventories(variant) :
       fn = [op |-> "diffImages", prevImages |-> A, currentImages |-> B,
             done |-> FALSE, forward |-> ZeroDiff, backward |-> ZeroDiff]

\* diffImages(prevImages, currentImages), and with the arguments swapped
DiffImages ==
  /\ fn.op = "diffImages"
  /\ ~fn.done
  /\ fn' = [fn EXCEPT !.done = TRUE,
                      !.forward = diffImages(variant, fn.prevImages, fn.currentImages),
                      !.backward = diffImages(variant, fn.currentImages, fn.prevImages)]
  /\ UNCHANGED idleVars

NextDiff == DiffImages

SpecDiff == InitDiff /\ [][NextDiff]_vars

\* C14: diffImages(A, B).added = diffImages(B, A).deleted and
\* diffImages(A, B).deleted = diffImages(B, A).added, for all inventories A, B.
C14_DiffSymmetry ==
  (fn.op = "diffImages" /\ fn.done) =>
    /\ fn.forward.added = fn.backward.deleted
    /\ fn.forward.deleted = fn.backward.added

\* C14 witness: one key only in A and another only in B
C14_Witness ==
  /\ fn.op = "diffImages" /\ fn.done
  /\ fn.forward.added = 1 /\ fn.forward.deleted = 1
  /\ fn.backward.added = 1 /\ fn.backward.deleted = 1

\* mtimeMs in the timestamp variant, hash in the hash variant
fingerprint(entry) == IF variant = "timestamp" THEN entry.mtimeMs ELSE entry.hash

\* C15: added is the number of keys only in curr, deleted the number of keys
\* only in prev, changed the number of keys in both whose size differs or whose
\* fingerprint differs (either alone suffices); a key with the same size and the
\* same fingerprint is counted in none of the three.
C15_DiffClassification ==
  (fn.op = "diffImages" /\ fn.done) =>
    LET prevI == fn.prevImages
        curr  == fn.currentImages
        both  == DOMAIN prevI \cap DOMAIN curr
        same  == { k \in both : /\ prevI[k].size = curr[k].size
                                /\ fingerprint(prevI[k]) = fingerprint(curr[k]) }
    IN  /\ fn.forward.added = Cardinality(DOMAIN curr \ DOMAIN prevI)
        /\ fn.forward.deleted = Cardinality(DOMAIN prevI \ DOMAIN curr)
        /\ fn.forward.changed =
             Cardinality({ k \in both : \/ prevI[k].size # curr[k].size
                                        \/ fingerprint(prevI[k]) # fingerprint(curr[k]) })
        /\ fn.forward.added + fn.forward.changed + fn.forward.deleted
             = Cardinality(DOMAIN prevI \cup DOMAIN curr) - Cardinality(same)

\* C15 witness: of two keys in both inventories one differs in the fingerprint
\* only, the other in the size only; both are counted as changed
C15_Witness ==
  /\ fn.op = "diffImages" /\ fn.done
  /\ fn.forward.changed = 2
  /\ \E k \in DOMAIN fn.prevImages :
       /\ fn.prevImages[k].size = fn.currentImages[k].size
       /\ fingerprint(fn.prevImages[k]) # fingerprint(fn.currentImages[k])
  /\ \E k \in DOMAIN fn.prevImages :
       /\ fn.prevImages[k].size # fn.currentImages[k].size
       /\ fingerprint(fn.prevImages[k]) = fingerprint(fn.currentImages[k])

(***************************************************************************)
(* Cache load.  One run; the first execution starts with a cache file of   *)
(* any kind, the second one in the same directory without a cache file.    *)
(***************************************************************************)

otherVariant(v) == IF v = "timestamp" THEN "hash" ELSE "timestamp"

\* the cache files a run of variant v may find: none; one that is not JSON; one
\* written by the other variant (another version); one of this version without
\* "bundles"; one written by this variant
LoadFileNo(v, i) ==
  CASE i = 1 -> NoCacheFile
    [] i = 2 -> [exists |-> TRUE, parses |-> FALSE, version |-> 0,
                 hasBundles |-> FALSE, bundles |-> EmptyBundles]
    [] i = 3 -> CacheFileNo(otherVariant(v), 2)
    [] i = 4 -> [exists |-> TRUE, parses |-> TRUE, version |-> CACHE_VERSION(v),
                 hasBundles |-> FALSE, bundles |-> EmptyBundles]
    [] OTHER -> CacheFileNo(v, 2)

InitLoad ==
  Started({ [dry |-> <<FALSE, FALSE>>, md |-> m,
             cache |-> [v \in {"timestamp", "hash"} |->
                          <<LoadFileNo(v, i), NoCacheFile>>]] :
              m \in {PlainMd, QuotedMd}, i \in 1..5 })

SpecLoad == InitLoad /\ [][Next]_vars

\* the cache file execution w found at its start can be taken over
usable(w) ==
  /\ pre[w].cacheFile.exists
  /\ pre[w].cacheFile.parses
  /\ pre[w].cacheFile.version = CACHE_VERSION(variant)

\* C16: the cache in memory at the start of the loop is the stored bundle map
\* only when the cache file exists, parses and carries CACHE_VERSION; with a
\* file that is absent, unparseable or of another version the run starts from the
\* empty cache, is not ended by the load, and from then on goes exactly as the
\* run of an execution that found no cache file, to the file written at its end.
C16_CacheLoad ==
  /\ pos = 1 =>
       \A w \in W :
         /\ pc[w] = "loop"
         /\ cache[w] = IF usable(w) /\ pre[w].cacheFile.hasBundles
                       THEN pre[w].cacheFile.bundles ELSE EmptyBundles
  /\ ~usable(1) =>
       /\ cache[1] = cache[2]
       /\ stats[1] = stats[2]
       /\ indexMd[1] = indexMd[2]
       /\ pc[1] = pc[2]
       /\ last[1].outcome = last[2].outcome
       /\ (pc[1] = "done" => /\ cacheFile[1] = cacheFile[2]
                             /\ cacheFile[1].version = CACHE_VERSION(variant))

\* C16 witness: a run that found a cache file of another version, with an
\* inventory in it, has handled two bundles, found their images added, and ended
C16_Witness ==
  /\ pre[1].cacheFile.exists
  /\ pre[1].cacheFile.parses
  /\ pre[1].cacheFile.version # CACHE_VERSION(variant)
  /\ pre[1].cacheFile.bundles # EmptyBundles
  /\ pc[1] = "done"
  /\ stats[1].totalBundles = 2
  /\ stats[1].totalAdded >= 2

(***************************************************************************)
(* formatLocalISO and isNewerISO                                           *)
(***************************************************************************)

\* instants of 2025-10-26 and 2025-10-27, in whole seconds, on both sides of the
\* end of summer time (3600000)
Instants ==
  { 0, 1000, 59000, 1800000, 3599000, 3600000, 3601000, 4200000, 7199000, 7200000,
    82800000, 90000000 }

InitFormat ==
  /\ Idle
  /\ variant \in {"timestamp", "hash"}
  /\ \E t1 \in Instants, t2 \in Instants :
       fn = [op |-> "formatLocalISO", t1 |-> t1, t2 |-> t2, done |-> FALSE,
             s1 |-> <<>>, s2 |-> <<>>, newer |-> FALSE]

\* isNewerISO(formatLocalISO(new Date(t2)), formatLocalISO(new Date(t1)))
FormatLocalISO ==
  /\ fn.op = "formatLocalISO"
  /\ ~fn.done
  /\ \E s1 \in { formatLocalISO(fn.t1) }, s2 \in { formatLocalISO(fn.t2) } :
       fn' = [fn EXCEPT !.done = TRUE, !.s1 = s1, !.s2 = s2,
                        !.newer = isNewerISO(s2, s1)]
  /\ UNCHANGED idleVars

NextFormat == FormatLocalISO

SpecFormat == InitFormat /\ [][NextFormat]_vars

\* C18 (as claimed): for instants t1 < t2 at least one second apart,
\* formatLocalISO(t1) is lexicographically smaller than formatLocalISO(t2), also
\* when the UTC offset changes in between, and isNewerISO(formatLocalISO(t2),
\* formatLocalISO(t1)) is true.
C18_LexicographicIsChronological ==
  (fn.op = "formatLocalISO" /\ fn.done /\ fn.t2 - fn.t1 >= 1000) =>
    /\ strGreater(fn.s2, fn.s1)
    /\ fn.newer

(***************************************************************************)
(* getImageFiles                                                           *)
(***************************************************************************)

\* largest maxDepth the scanner is called with
MaxMaxDepth == 3

JPG   == <<106, 112, 103>>
X_JPG == <<120, 46, 106, 112, 103>>
E_JPEG == <<101, 46, 106, 112, 101, 103>>
DEEP  == <<100, 101, 101, 112>>
D_WEBP == <<100, 46, 119, 101, 98, 112>>

\* a.jpg, b.PNG, n.txt, a file called "jpg"; sub/c.jpg; e.jpeg in a directory
\* called x.jpg; sub/deep/d.webp and sub/deep/n.txt
ScanPaths ==
  { <<A_JPG>>, <<B_PNG>>, <<N_TXT>>, <<JPG>>, <<SUB, C_JPG>>, <<X_JPG, E_JPEG>>,
    <<SUB, DEEP, D_WEBP>>, <<SUB, DEEP, N_TXT>> }

ScanTrees == UNION { [P -> {file(1800000, 100, "h1")}] : P \in SUBSET ScanPaths }

InitScan ==
  /\ Idle
  /\ variant \in {"timestamp", "hash"}
  /\ \E tree \in ScanTrees, maxDepth \in 1..MaxMaxDepth :
       fn = [op |-> "getImageFiles", tree |-> tree, maxDepth |-> maxDepth,
             done |-> FALSE, files |-> {}]

\* const files = await getImageFiles(absDir, maxDepth)
GetImageFiles ==
  /\ fn.op = "getImageFiles"
  /\ ~fn.done
  /\ fn' = [fn EXCEPT !.done = TRUE, !.files = getImageFiles(fn.tree, fn.maxDepth)]
  /\ UNCHANGED idleVars

NextScan == GetImageFiles

SpecScan == InitScan /\ [][NextScan]_vars

\* the name ends with a dot and an extension of the configuration, letters of
\* either case taken as the same
hasExtension(name) ==
  \E ext \in EXTENSIONS :
    LET n == Len(name)
        k == Len(ext)
    IN  /\ n >= k + 1
        /\ name[n - k] = 46
        /\ \A i \in 1..k :
             LET c == name[n - k + i]
             IN  (IF c \in 65..90 THEN c + 32 ELSE c) = ext[i]

\* C19: for every tree and every maxDepth >= 1 getImageFiles returns exactly the
\* files whose name has a configured extension (case-insensitively) and that lie
\* fewer than maxDepth directory levels below the bundle directory; with
\* maxDepth 1 these are files directly in the bundle directory only.
C19_ScannerDepthBound ==
  (fn.op = "getImageFiles" /\ fn.done) =>
    /\ fn.files = { p \in DOMAIN fn.tree :
                      Len(p) - 1 < fn.maxDepth /\ hasExtension(p[Len(p)]) }
    /\ fn.maxDepth = 1 => \A p \in fn.files : Len(p) = 1

\* C19 witness: with maxDepth 2 the images one level down are found, also in a
\* directory named like an image, an image two levels down is not, and b.PNG is
C19_Witness ==
  /\ fn.op = "getImageFiles" /\ fn.done
  /\ fn.maxDepth = 2
  /\ <<SUB, DEEP, D_WEBP>> \in DOMAIN fn.tree
  /\ <<SUB, DEEP, D_WEBP>> \notin fn.files
  /\ {<<B_PNG>>, <<SUB, C_JPG>>, <<X_JPG, E_JPEG>>} \subseteq fn.files
  /\ <<JPG>> \in DOMAIN fn.tree
  /\ <<JPG>> \notin fn.files

(***************************************************************************)
(* Further properties of the descriptor editor and of one run              *)
(***************************************************************************)

\* the lines of a valid descriptor file without the first "lastmod:" line of
\* its header
linesButLastmod(content) ==
  LET lines == split(content)
      k     == firstLastmod(parseFrontmatter(content).fmLines)
      at    == delimIdx(lines)[1] + k
  IN  IF k = 0 THEN lines
      ELSE SubSeq(lines, 1, at - 1) \o SubSeq(lines, at + 1, Len(lines))

\* C21 (as claimed): the file built from the parse result of a valid descriptor
\* has, apart from the first lastmod line of the header, the lines of the
\* original: those before the first delimiter line, the two delimiter lines and
\* the body included.
C21_OnlyLastmodLineRewritten ==
  ed.phase = "reparsed" => linesButLastmod(ed.out) = linesButLastmod(ed.content)

\* C22 (as claimed): hash variant: when the last bundle of a completed run had a
\* non-empty diff and its descriptor was not written (invalid descriptor,
\* candidate not newer, or dry-run), the cache file does not hold the new
\* inventory of that bundle, so that the next run finds the same diff.
C22_NoDetectedChangeLost ==
  \A w \in W :
    ( /\ variant = "hash"
      /\ pc[w] = "done"
      /\ called(w)
      /\ last[w].total # 0
      /\ ~last[w].wrote )
    => prevImagesOf(loadCache(variant, cacheFile[w]), last[w].dir)
         # scanImagesForBundle(variant, fs[last[w].dir], MAXDEPTH)

=============================================================================
